---- MODULE Spec2Model ----
(***************************************************************************)
(* Product catalog / cart service (src/product-catalog-service/main.py).   *)
(*                                                                         *)
(* The store is two tables, products and cart_items.  Every handler opens  *)
(* its own SQLAlchemy session (autocommit=False, autoflush=False), reads   *)
(* rows into it, changes the loaded objects and writes them at db.commit().*)
(*                                                                         *)
(* Only stock_quantity of a product is modelled; create_product,           *)
(* delete_product and health_check are not.                                *)
(*                                                                         *)
(* Five specifications share the variables:                                *)
(*   Spec      every handler runs to completion, one request at a time;    *)
(*   CoreSpec  the same, restricted to add_to_cart,                        *)
(*             update_cart_item_quantity, remove_from_cart_by_session and  *)
(*             get_cart;                                                   *)
(*   HistSpec  CoreSpec with the history of every cart line recorded;      *)
(*   ConcSpec  add_to_cart requests whose queries and commit interleave;   *)
(*   StartupSpec  startup_event, statement by statement.                   *)
(***************************************************************************)
EXTENDS Integers, FiniteSets, Sequences, TLC

\* ---------------------------------------------------------------- bounds
MaxStock == 2
MaxQty == 2
MaxItems == 2

Sessions == {"A", "B"}
ProductIds == {1}
\* ids a request may name: the existing product and one that does not exist
RequestedProductIds == {1, 2}
\* quantities a request may carry: the request models take any int; -1 and 0
\* stand for the ones that are not positive
Quantities == -1..MaxQty
\* quantities of the add_to_cart requests (AddToCartRequest.quantity is an
\* unconstrained int as well; 0 stands for the ones that are not positive)
AddQuantities == 0..MaxQty
CartItemIds == 1..MaxItems
Requests == {1, 2}

VARIABLES
    products,     \* table products: id -> row
    cart_items,   \* table cart_items: set of rows
    next_id,      \* AUTO_INCREMENT of cart_items.id
    last,         \* the request that completed last, and its response
    provisioned,  \* history: stock_quantity of each product at the start
    origin,       \* history: per cart line, the stock before it was created
    tracking,     \* whether origin is kept (it is under HistSpec only)
    reqs,         \* ConcSpec: the add_to_cart requests in flight
    startup       \* StartupSpec: where startup_event is, and what it did

vars == <<products, cart_items, next_id, last, provisioned, origin, tracking, reqs,
         startup>>

\* ------------------------------------------------------------ rows, queries
\* the result of a query that matched no row (None)
NoRow == [id |-> 0]

\* Query(...).first(): the row, or None; without ORDER BY any matching row
first(rows) == IF rows = {} THEN {NoRow} ELSE rows

\* db.query(Product).filter(Product.id == product_id).first()
QueryProduct(product_id) ==
    IF product_id \in DOMAIN products THEN products[product_id] ELSE NoRow

\* mutant: the filter on cart_session_id is missing
QueryCartItemAnySession(cart_session_id, product_id) ==
    {i \in cart_items : i.product_id = product_id}

\* db.query(CartItem).filter(cart_session_id == .., product_id == ..)
QueryCartItem(cart_session_id, product_id) ==
    {i \in cart_items : i.cart_session_id = cart_session_id
                        /\ i.product_id = product_id}

\* db.query(CartItem).filter(CartItem.id == cart_item_id)
QueryCartItemById(cart_item_id) ==
    {i \in cart_items : i.id = cart_item_id}

\* line 324: the rows of a cart_items table with the session's id
SessionLines(items, cart_session_id) ==
    {i \in items : i.cart_session_id = cart_session_id}

\* get_cart: all the lines of the session (an empty list when there is none)
get_cart(cart_session_id) == SessionLines(cart_items, cart_session_id)

RECURSIVE SumQuantity(_)
SumQuantity(items) ==
    IF items = {} THEN 0
    ELSE LET i == CHOOSE x \in items : TRUE
         IN  i.quantity + SumQuantity(items \ {i})

\* units of a product held by cart lines
Reserved(product_id) ==
    SumQuantity({i \in cart_items : i.product_id = product_id})

\* ------------------------------------------------------------------ history
\* The request that completed, as the handler saw it.  status is what the
\* handler returned or raised (the route's status_code on a return, the
\* HTTPException's status_code on a raise; what the framework makes of a
\* returned value that does not fit the response_model is not modelled);
\* body is the set of cart lines of the value it returned.
Response(op, cart_session_id, product_id, quantity, cart_item_id, status, body) ==
    [op |-> op, cart_session_id |-> cart_session_id, product_id |-> product_id,
     quantity |-> quantity, cart_item_id |-> cart_item_id, status |-> status,
     body |-> body]

NoResponse == Response("none", "", 0, 0, 0, 0, {})

StockOf(table, product_id) == table[product_id].stock_quantity

\* origin of every line of items2: for a line that is new, the stock of its
\* product before the request; a line stays clean while its quantity and its
\* product's stock are changed only by the request acting on it (acting is
\* the id of the line add_to_cart / update_cart_item_quantity handles, or 0)
Track(acting, products2, items2) ==
    IF ~tracking THEN origin ELSE
    [id \in {i.id : i \in items2} |->
        LET line == CHOOSE i \in items2 : i.id = id
        IN  IF id \notin DOMAIN origin
            THEN [stock |-> StockOf(products, line.product_id), clean |-> TRUE]
            ELSE [origin[id] EXCEPT !.clean =
                    @ /\ (\/ id = acting
                          \/ /\ line \in cart_items
                             /\ StockOf(products2, line.product_id)
                                  = StockOf(products, line.product_id))]]

\* the store after a commit, with the bounds of the model as guards
Commit(products2, items2, acting) ==
    /\ \A p \in DOMAIN products2 : StockOf(products2, p) <= MaxStock
    /\ \A i \in items2 : i.id <= MaxItems /\ i.quantity \in Quantities
    /\ products' = products2
    /\ cart_items' = items2
    /\ next_id' = IF \E i \in items2 : i.id = next_id
                  THEN next_id + 1 ELSE next_id
    /\ origin' = Track(acting, products2, items2)

\* a request that ends without a commit (db.close() rolls back)
NoCommit == UNCHANGED <<products, cart_items, next_id, origin>>

\* ------------------------------------------------------------- add_to_cart
\* mutant: the check lets a request take one unit more than the stock
InsufficientStockOffByOne(product, quantity) ==
    product.stock_quantity + 1 < quantity

\* line 283: product.stock_quantity < request.quantity
InsufficientStock(product, quantity) == product.stock_quantity < quantity

\* line 307: product.stock_quantity -= request.quantity
AddStock(product, quantity) == product.stock_quantity - quantity

\* mutant: the line's quantity is overwritten, not increased
AddQuantityOverwrite(cart_item, quantity) == quantity

\* line 295: cart_item.quantity += request.quantity
AddQuantity(cart_item, quantity) == cart_item.quantity + quantity

\* lines 298-303: a new CartItem, INSERTed at the commit with the next id
NewCartItem(cart_session_id, product_id, quantity) ==
    [id |-> next_id, cart_session_id |-> cart_session_id,
     product_id |-> product_id, quantity |-> quantity]

\* the row add_to_cart writes for the line: the loaded one with its new
\* quantity, or the new one
AddedItem(cart_item, cart_session_id, product_id, quantity) ==
    IF cart_item.id # 0
    THEN [cart_item EXCEPT !.quantity = AddQuantity(cart_item, quantity)]
    ELSE NewCartItem(cart_session_id, product_id, quantity)

\* the UPDATE of a loaded row: it replaces the stored row of that id
WriteItem(row) == {i \in cart_items : i.id # row.id} \cup {row}

\* the UPDATE of products.stock_quantity of a loaded product
WriteStock(product, stock_quantity) ==
    [products EXCEPT ![product.id].stock_quantity = stock_quantity]

\* mutant: the line is committed on its own, the stock decrement is not
AddToCartCommitLineOnly(product, cart_item, cart_session_id, product_id, quantity) ==
    LET added == AddedItem(cart_item, cart_session_id, product_id, quantity)
    IN  /\ Commit(products, WriteItem(added), added.id)
        /\ last' = Response("add_to_cart", cart_session_id, product_id,
                            quantity, added.id, 201, {added})

\* lines 293-318, for the rows the queries of lines 277 and 288 loaded
AddToCartCommit(product, cart_item, cart_session_id, product_id, quantity) ==
    LET added == AddedItem(cart_item, cart_session_id, product_id, quantity)
    IN  /\ Commit(WriteStock(product, AddStock(product, quantity)),
                  WriteItem(added), added.id)
        /\ last' = Response("add_to_cart", cart_session_id, product_id,
                            quantity, added.id, 201, {added})

add_to_cart(cart_session_id, product_id, quantity) ==
    LET product == QueryProduct(product_id)
    IN  IF product.id = 0
        THEN /\ NoCommit
             /\ last' = Response("add_to_cart", cart_session_id, product_id,
                                 quantity, 0, 404, {})
        ELSE IF InsufficientStock(product, quantity)
        THEN /\ NoCommit
             /\ last' = Response("add_to_cart", cart_session_id, product_id,
                                 quantity, 0, 400, {})
        ELSE \E cart_item \in first(QueryCartItem(cart_session_id, product_id)) :
                AddToCartCommit(product, cart_item, cart_session_id,
                                product_id, quantity)

AddToCart ==
    /\ \E s \in Sessions, p \in RequestedProductIds, q \in AddQuantities :
          add_to_cart(s, p, q)
    /\ UNCHANGED <<provisioned, tracking, reqs, startup>>

\* ---------------------------------------------------------------- get_cart
GetCart ==
    /\ \E s \in Sessions :
          last' = Response("get_cart", s, 0, 0, 0, 200, get_cart(s))
    /\ NoCommit
    /\ UNCHANGED <<provisioned, tracking, reqs, startup>>

\* ----------------------------------------------- update_cart_item_quantity
\* line 359: quantity_change = new_quantity - current_quantity
QuantityChange(cart_item, new_quantity) == new_quantity - cart_item.quantity

Abs(n) == IF n < 0 THEN 0 - n ELSE n

\* mutant: a decrease takes the units from the stock once more
UpdatedStockWrongSign(product, quantity_change) ==
    product.stock_quantity - Abs(quantity_change)

\* mutant: a decrease does not return the units to the stock
UpdatedStockNoReturn(product, quantity_change) ==
    IF quantity_change > 0 THEN product.stock_quantity - quantity_change
    ELSE product.stock_quantity

\* lines 361-369: the stock the handler leaves in the loaded product
UpdatedStock(product, quantity_change) ==
    IF quantity_change > 0 THEN product.stock_quantity - quantity_change
    ELSE IF quantity_change < 0 THEN product.stock_quantity + Abs(quantity_change)
    ELSE product.stock_quantity

\* mutant: a line set to 0 is written, not deleted
UpdatedItemsKeepZero(cart_item, new_quantity) ==
    {i \in cart_items : i.id # cart_item.id}
        \cup {[cart_item EXCEPT !.quantity = new_quantity]}

\* lines 372-382: the cart_items table after the commit
UpdatedItems(cart_item, new_quantity) ==
    IF new_quantity = 0
    THEN {i \in cart_items : i.id # cart_item.id}
    ELSE WriteItem([cart_item EXCEPT !.quantity = new_quantity])

update_cart_item_quantity(cart_session_id, product_id, new_quantity) ==
    \E cart_item \in first(QueryCartItem(cart_session_id, product_id)) :
      LET product == QueryProduct(cart_item.product_id)
          quantity_change == QuantityChange(cart_item, new_quantity)
          Fail(status) ==
              /\ NoCommit
              /\ last' = Response("update_cart_item_quantity", cart_session_id,
                                  product_id, new_quantity, cart_item.id,
                                  status, {})
      IN  IF cart_item.id = 0 THEN Fail(404)
          ELSE IF product.id = 0 THEN Fail(500)
          ELSE IF new_quantity < 0 THEN Fail(400)
          ELSE IF quantity_change > 0
                  /\ InsufficientStock(product, quantity_change)
          THEN Fail(400)
          ELSE /\ Commit(WriteStock(product,
                                    UpdatedStock(product, quantity_change)),
                         UpdatedItems(cart_item, new_quantity), cart_item.id)
               /\ last' = Response("update_cart_item_quantity",
                              cart_session_id, product_id, new_quantity,
                              cart_item.id, 200,
                              IF new_quantity = 0 THEN {}
                              ELSE {[cart_item EXCEPT !.quantity = new_quantity]})

UpdateCartItemQuantity ==
    /\ \E s \in Sessions, p \in RequestedProductIds, q \in Quantities :
          update_cart_item_quantity(s, p, q)
    /\ UNCHANGED <<provisioned, tracking, reqs, startup>>

\* --------------------------------------------- remove_from_cart_by_session
\* db.refresh(product): the attributes of the loaded object are expired and
\* loaded again from its row.  The session is made with autoflush=False
\* (line 25) and nothing was flushed, so what the handler assigned is lost.
Refresh(product) == QueryProduct(product.id)

\* lines 442-443: product.stock_quantity += cart_item.quantity; db.refresh(product)
RemovedStock(product, cart_item) ==
    Refresh([product EXCEPT !.stock_quantity = @ + cart_item.quantity]).stock_quantity

remove_from_cart_by_session(cart_session_id, product_id) ==
    \E cart_item \in first(QueryCartItem(cart_session_id, product_id)) :
      LET product == QueryProduct(cart_item.product_id)
      IN  IF cart_item.id = 0
          THEN /\ NoCommit
               /\ last' = Response("remove_from_cart_by_session",
                              cart_session_id, product_id, 0, 0, 404, {})
          ELSE /\ Commit(IF product.id # 0
                         THEN WriteStock(product, RemovedStock(product, cart_item))
                         ELSE products,
                         {i \in cart_items : i.id # cart_item.id}, 0)
               /\ last' = Response("remove_from_cart_by_session",
                              cart_session_id, product_id, 0, cart_item.id,
                              200, {})

RemoveFromCartBySession ==
    /\ \E s \in Sessions, p \in RequestedProductIds :
          remove_from_cart_by_session(s, p)
    /\ UNCHANGED <<provisioned, tracking, reqs, startup>>

\* ----------------------------------------- update_cart_item_quantity_by_id
\* mutant: the update by id moves the difference between stock and line
UpdateByIdAdjustingStock(cart_item_id, quantity) ==
    \E cart_item \in first(QueryCartItemById(cart_item_id)) :
      IF cart_item.id = 0
      THEN /\ NoCommit
           /\ last' = Response("update_cart_item_quantity_by_id", "", 0,
                               quantity, cart_item_id, 404, {})
      ELSE IF quantity <= 0
      THEN /\ Commit([products EXCEPT ![cart_item.product_id].stock_quantity =
                          @ + cart_item.quantity],
                     {i \in cart_items : i.id # cart_item.id}, 0)
           /\ last' = Response("update_cart_item_quantity_by_id", "", 0,
                               quantity, cart_item_id, 200, {})
      ELSE /\ Commit([products EXCEPT ![cart_item.product_id].stock_quantity =
                          @ + cart_item.quantity - quantity],
                     WriteItem([cart_item EXCEPT !.quantity = quantity]), 0)
           /\ last' = Response("update_cart_item_quantity_by_id", "", 0,
                               quantity, cart_item_id, 200,
                               {[cart_item EXCEPT !.quantity = quantity]})

update_cart_item_quantity_by_id(cart_item_id, quantity) ==
    \E cart_item \in first(QueryCartItemById(cart_item_id)) :
      IF cart_item.id = 0
      THEN /\ NoCommit
           /\ last' = Response("update_cart_item_quantity_by_id", "", 0,
                               quantity, cart_item_id, 404, {})
      ELSE IF quantity <= 0
      THEN \* db.delete, db.commit, then HTTPException(status_code=200)
           /\ Commit(products, {i \in cart_items : i.id # cart_item.id}, 0)
           /\ last' = Response("update_cart_item_quantity_by_id", "", 0,
                               quantity, cart_item_id, 200, {})
      ELSE /\ Commit(products,
                     WriteItem([cart_item EXCEPT !.quantity = quantity]), 0)
           /\ last' = Response("update_cart_item_quantity_by_id", "", 0,
                               quantity, cart_item_id, 200,
                               {[cart_item EXCEPT !.quantity = quantity]})

UpdateCartItemQuantityById ==
    /\ \E id \in CartItemIds, q \in Quantities :
          update_cart_item_quantity_by_id(id, q)
    /\ UNCHANGED <<provisioned, tracking, reqs, startup>>

\* -------------------------------------------------------- remove_from_cart
\* mutant: the removal by id gives the line's quantity back to the stock
RemoveFromCartReturningStock(cart_item_id) ==
    \E cart_item \in first(QueryCartItemById(cart_item_id)) :
      IF cart_item.id = 0
      THEN /\ NoCommit
           /\ last' = Response("remove_from_cart", "", 0, 0, cart_item_id,
                               404, {})
      ELSE /\ Commit([products EXCEPT ![cart_item.product_id].stock_quantity =
                          @ + cart_item.quantity],
                     {i \in cart_items : i.id # cart_item.id}, 0)
           /\ last' = Response("remove_from_cart", "", 0, 0, cart_item_id,
                               204, {})

remove_from_cart(cart_item_id) ==
    \E cart_item \in first(QueryCartItemById(cart_item_id)) :
      IF cart_item.id = 0
      THEN /\ NoCommit
           /\ last' = Response("remove_from_cart", "", 0, 0, cart_item_id,
                               404, {})
      ELSE /\ Commit(products, {i \in cart_items : i.id # cart_item.id}, 0)
           /\ last' = Response("remove_from_cart", "", 0, 0, cart_item_id,
                               204, {})

RemoveFromCart ==
    /\ \E id \in CartItemIds : remove_from_cart(id)
    /\ UNCHANGED <<provisioned, tracking, reqs, startup>>

\* ---------------------------------------------------------- update_product
\* stock_quantity values a ProductUpdate may carry (any int)
StockUpdates == 0..MaxStock

\* lines 249-250: setattr for every field the request set; set_stock tells
\* whether stock_quantity is one of them
UpdatedProduct(db_product, set_stock, stock_quantity) ==
    IF set_stock THEN [db_product EXCEPT !.stock_quantity = stock_quantity]
    ELSE db_product

update_product(product_id, set_stock, stock_quantity) ==
    LET db_product == QueryProduct(product_id)
    IN  IF db_product.id = 0
        THEN /\ NoCommit
             /\ last' = Response("update_product", "", product_id,
                                 stock_quantity, 0, 404, {})
        ELSE /\ Commit(WriteStock(db_product,
                          UpdatedProduct(db_product, set_stock,
                                         stock_quantity).stock_quantity),
                       cart_items, 0)
             /\ last' = Response("update_product", "", product_id,
                                 stock_quantity, 0, 200, {})

UpdateProduct ==
    /\ \E p \in RequestedProductIds, set_stock \in BOOLEAN, n \in StockUpdates :
          update_product(p, set_stock, IF set_stock THEN n ELSE 0)
    /\ UNCHANGED <<provisioned, tracking, reqs, startup>>

\* ------------------------------------------------ get_product, get_products
get_product(product_id) ==
    /\ NoCommit
    /\ last' = Response("get_product", "", product_id, 0, 0,
                        IF QueryProduct(product_id).id = 0 THEN 404 ELSE 200, {})

GetProduct ==
    /\ \E p \in RequestedProductIds : get_product(p)
    /\ UNCHANGED <<provisioned, tracking, reqs, startup>>

GetProducts ==
    /\ NoCommit
    /\ last' = Response("get_products", "", 0, 0, 0, 200, {})
    /\ UNCHANGED <<provisioned, tracking, reqs, startup>>

\* -------------------------------------------------------------- the program
\* startup_event after it returned at its first attempt
StartupReturned ==
    [pc |-> "returned", i |-> 0, attempts |-> 1, sleeps |-> 0,
     error |-> "none", rows |-> Cardinality(ProductIds), seeded |-> 0,
     log |-> << >>]

\* the request slots of ConcSpec, before a request arrives
IdleRequest ==
    [pc |-> "idle", cart_session_id |-> "", product_id |-> 0, quantity |-> 0,
     product |-> NoRow, cart_item |-> NoRow, status |-> 0]

\* the tables after startup: the products with their stock, an empty cart
Init ==
    /\ products \in [ProductIds -> [id : ProductIds, stock_quantity : 0..MaxStock]]
    /\ \A p \in ProductIds : products[p].id = p
    /\ cart_items = {}
    /\ next_id = 1
    /\ last = NoResponse
    /\ provisioned = [p \in ProductIds |-> products[p].stock_quantity]
    /\ origin = << >>
    /\ tracking = FALSE
    /\ reqs = [r \in Requests |-> IdleRequest]
    /\ startup = StartupReturned

\* the same start, with the origin of every cart line recorded
InitHist ==
    /\ products \in [ProductIds -> [id : ProductIds, stock_quantity : 0..MaxStock]]
    /\ \A p \in ProductIds : products[p].id = p
    /\ cart_items = {}
    /\ next_id = 1
    /\ last = NoResponse
    /\ provisioned = [p \in ProductIds |-> products[p].stock_quantity]
    /\ origin = << >>
    /\ tracking = TRUE
    /\ reqs = [r \in Requests |-> IdleRequest]
    /\ startup = StartupReturned

\* the reservation operations of the cart, one request at a time
NextCore ==
    \/ AddToCart
    \/ UpdateCartItemQuantity
    \/ RemoveFromCartBySession
    \/ GetCart

CoreSpec == Init /\ [][NextCore]_vars

HistSpec == InitHist /\ [][NextCore]_vars

\* every endpoint, one request at a time
Next ==
    \/ AddToCart
    \/ GetCart
    \/ UpdateCartItemQuantity
    \/ UpdateCartItemQuantityById
    \/ RemoveFromCart
    \/ RemoveFromCartBySession
    \/ UpdateProduct
    \/ GetProduct
    \/ GetProducts

Spec == Init /\ [][Next]_vars

\* ------------------------------------------- add_to_cart, request by request
\* Each request has its own session and transaction.  Its queries read the
\* committed tables (under snapshot isolation the cart query reads what the
\* product query saw: the behaviours in which it follows at once); what it
\* changed in its loaded objects reaches the tables at db.commit(), as one
\* transaction.  Nothing in the handler locks a row
\* (no with_for_update, no version column) and cart_items has no unique
\* constraint on (cart_session_id, product_id).

\* the request arrives (with a quantity > 0, as the cart's clients send);
\* lines 277-285: the product query and the two checks
BeginAddToCart(r) ==
    /\ reqs[r].pc = "idle"
    /\ \E s \in Sessions, p \in RequestedProductIds, q \in 1..MaxQty :
         LET product == QueryProduct(p)
             req == [reqs[r] EXCEPT !.cart_session_id = s, !.product_id = p,
                                    !.quantity = q]
         IN  IF product.id = 0
             THEN reqs' = [reqs EXCEPT ![r] =
                              [req EXCEPT !.pc = "done", !.status = 404]]
             ELSE IF InsufficientStock(product, q)
             THEN reqs' = [reqs EXCEPT ![r] =
                              [req EXCEPT !.pc = "done", !.status = 400]]
             ELSE reqs' = [reqs EXCEPT ![r] =
                              [req EXCEPT !.pc = "query_cart",
                                          !.product = product]]
    /\ NoCommit
    /\ UNCHANGED <<last, provisioned, tracking, startup>>

\* lines 288-291: the cart line query
QueryCartAddToCart(r) ==
    /\ reqs[r].pc = "query_cart"
    /\ \E cart_item \in first(QueryCartItem(reqs[r].cart_session_id,
                                             reqs[r].product_id)) :
         reqs' = [reqs EXCEPT ![r].pc = "commit", ![r].cart_item = cart_item]
    /\ NoCommit
    /\ UNCHANGED <<last, provisioned, tracking, startup>>

\* lines 293-318: the changes to the loaded rows, and the commit
CommitAddToCart(r) ==
    /\ reqs[r].pc = "commit"
    /\ AddToCartCommit(reqs[r].product, reqs[r].cart_item,
                       reqs[r].cart_session_id, reqs[r].product_id,
                       reqs[r].quantity)
    /\ reqs' = [reqs EXCEPT ![r].pc = "done", ![r].status = 201]
    /\ UNCHANGED <<provisioned, tracking, startup>>

\* the request ends before its commit (an exception, a dropped connection):
\* get_db closes the session, which rolls back what was not committed
AbandonAddToCart(r) ==
    /\ reqs[r].pc \in {"query_cart", "commit"}
    /\ reqs' = [reqs EXCEPT ![r].pc = "abandoned", ![r].status = 500]
    /\ NoCommit
    /\ UNCHANGED <<last, provisioned, tracking, startup>>

\* the add_to_cart requests, step by step, and a get_cart that observes the
\* committed tables between any two steps
NextConc ==
    \/ \E r \in Requests :
          \/ BeginAddToCart(r)
          \/ QueryCartAddToCart(r)
          \/ CommitAddToCart(r)
          \/ AbandonAddToCart(r)
    \/ GetCart

ConcSpec == Init /\ [][NextConc]_vars

\* ----------------------------------------------------------- startup_event

\* retries = 5
retries == 5

\* len(initial_products)
NumInitialProducts == 5

\* what a statement of the try block can raise
StartupErrors == {"OperationalError", "Exception"}

\* the statements of the try block that talk to the database
StartupStatements == {"create_all", "count", "commit"}

\* the rows of the products table when the service starts: none, or the
\* products of an earlier start
StartRows == {0, NumInitialProducts}

\* the handlers leave the tables of the running service alone
StartupFrame ==
    UNCHANGED <<products, cart_items, next_id, last, provisioned, origin,
                tracking, reqs>>

\* Base.metadata.create_all(bind=engine) succeeds
StartupCreateAll ==
    /\ startup.pc = "create_all"
    /\ startup' = [startup EXCEPT !.pc = "count"]
    /\ StartupFrame

\* if db.query(Product).count() == 0
StartupCountProducts ==
    /\ startup.pc = "count"
    /\ startup' = [startup EXCEPT !.pc = IF startup.rows = 0 THEN "commit"
                                                            ELSE "close"]
    /\ StartupFrame

\* db.add_all(initial_products); db.commit()
StartupSeedProducts ==
    /\ startup.pc = "commit"
    /\ startup' = [startup EXCEPT !.rows = @ + NumInitialProducts,
                                  !.seeded = @ + 1,
                                  !.pc = "close"]
    /\ StartupFrame

\* db.close(); return
StartupReturn ==
    /\ startup.pc = "close"
    /\ startup' = [startup EXCEPT !.pc = "returned"]
    /\ StartupFrame

\* the mutation of RetryAllowed: the last attempt sleeps as well
RetryAllowedEveryAttempt(i) == i < retries

\* if i < retries - 1
RetryAllowed(i) == i < retries - 1

\* except OperationalError: the warning, then the sleep or the raise
StartupOperationalError ==
    /\ startup.pc \in StartupStatements
    /\ startup' = [startup EXCEPT
                     !.error = "OperationalError",
                     !.log = Append(@, startup.pc),
                     !.sleeps = IF RetryAllowed(startup.i) THEN @ + 1 ELSE @,
                     !.pc = IF RetryAllowed(startup.i) THEN "sleep"
                                                       ELSE "raised"]
    /\ StartupFrame

\* except Exception: raise e
StartupException ==
    /\ startup.pc \in StartupStatements
    /\ startup' = [startup EXCEPT !.error = "Exception", !.pc = "raised"]
    /\ StartupFrame

\* the sleep is over: for i in range(retries) takes its next value, or the
\* loop is exhausted and the function ends
StartupNextAttempt ==
    /\ startup.pc = "sleep"
    /\ startup' = IF startup.i + 1 < retries
                  THEN [startup EXCEPT !.i = @ + 1,
                                       !.attempts = @ + 1,
                                       !.error = "none",
                                       !.pc = "create_all"]
                  ELSE [startup EXCEPT !.i = @ + 1, !.pc = "returned"]
    /\ StartupFrame

\* startup_event is called: the first attempt is about to create the tables
InitStartup ==
    /\ products = [p \in ProductIds |-> [id |-> p, stock_quantity |-> 0]]
    /\ cart_items = {}
    /\ next_id = 1
    /\ last = NoResponse
    /\ provisioned = [p \in ProductIds |-> 0]
    /\ origin = << >>
    /\ tracking = FALSE
    /\ reqs = [r \in Requests |-> IdleRequest]
    /\ \E n \in StartRows :
          startup = [pc |-> "create_all", i |-> 0, attempts |-> 1,
                     sleeps |-> 0, error |-> "none", rows |-> n,
                     seeded |-> 0, log |-> << >>]

NextStartup ==
    \/ StartupCreateAll
    \/ StartupCountProducts
    \/ StartupSeedProducts
    \/ StartupReturn
    \/ StartupOperationalError
    \/ StartupException
    \/ StartupNextAttempt

\* every statement of startup_event returns or raises
StartupSpec == InitStartup /\ [][NextStartup]_vars /\ WF_vars(NextStartup)

TypeOK ==
    /\ \A p \in ProductIds : products[p].id = p
    /\ next_id \in 1..(MaxItems + 1)
    /\ \A i \in cart_items : i.id \in 1..(next_id - 1)
    /\ tracking => DOMAIN origin = {i.id : i \in cart_items}

\* ================================================================== claims

\* C1: conservation.  For every product, in every committed state reached by
\* add_to_cart, update_cart_item_quantity and remove_from_cart_by_session,
\* stock_quantity plus the quantities of the cart lines of the product equals
\* the stock the product started with.
Conservation ==
    \A p \in ProductIds : StockOf(products, p) + Reserved(p) = provisioned[p]

\* C2: the race for the last unit.  When the product starts with stock 1
\* and two add_to_cart requests of quantity 1 from two different sessions
\* have both completed, exactly one of them succeeded, the other failed with
\* insufficient stock (400), and the stock is 0.
RaceForLastUnit ==
    \A p \in ProductIds :
      (/\ provisioned[p] = 1
       /\ \A r \in Requests : /\ reqs[r].pc = "done"
                              /\ reqs[r].product_id = p
                              /\ reqs[r].quantity = 1
       /\ \A r1, r2 \in Requests :
             r1 # r2 => reqs[r1].cart_session_id # reqs[r2].cart_session_id)
      => /\ Cardinality({r \in Requests : reqs[r].status = 201}) = 1
         /\ Cardinality({r \in Requests : reqs[r].status = 400}) = 1
         /\ StockOf(products, p) = 0

\* C3: stock non-negativity.  In every state reached by add_to_cart,
\* update_cart_item_quantity and remove_from_cart_by_session, every
\* product's stock_quantity is >= 0.
StockNonNegative ==
    \A p \in ProductIds : StockOf(products, p) >= 0

\* the stock was driven to exactly 0 by a successful add_to_cart
StockNonNegativeWitness ==
    /\ last.op = "add_to_cart"
    /\ last.status = 201
    /\ last.quantity > 0
    /\ StockOf(products, last.product_id) = 0

\* C4: positive line quantity.  Every cart line in the store has
\* quantity > 0.
PositiveLineQuantity ==
    \A i \in cart_items : i.quantity > 0

\* C5: uniqueness.  At most one cart line exists for each
\* (cart_session_id, product_id) pair, also when add_to_cart requests for
\* the same pair are interleaved.
UniqueLine ==
    \A i, j \in cart_items :
        (i.cart_session_id = j.cart_session_id /\ i.product_id = j.product_id)
        => i = j

\* the line of a (cart_session_id, product_id) pair in a table of cart lines
LinesOf(items, cart_session_id, product_id) ==
    {i \in items : i.cart_session_id = cart_session_id
                   /\ i.product_id = product_id}

\* the quantity the pair's line holds, 0 when it has none
HeldBy(items, cart_session_id, product_id) ==
    SumQuantity(LinesOf(items, cart_session_id, product_id))

\* C6: the effect of remove_from_cart_by_session.  When the line of
\* (session, product_id) exists with quantity q and the product has stock s,
\* the request commits a state without the line and with stock s + q.
RemoveReturnsStockStep ==
    (/\ last'.op = "remove_from_cart_by_session"
     /\ LinesOf(cart_items, last'.cart_session_id, last'.product_id) # {})
    => /\ LinesOf(cart_items', last'.cart_session_id, last'.product_id) = {}
       /\ StockOf(products', last'.product_id)
            = StockOf(products, last'.product_id)
              + HeldBy(cart_items, last'.cart_session_id, last'.product_id)

RemoveReturnsStock == [][RemoveReturnsStockStep]_vars

\* C7: the effect of a successful add_to_cart.  When the product exists with
\* stock s >= q, add_to_cart(session, product_id, q) succeeds, lowers the
\* stock to s - q and leaves exactly one line for (session, product_id),
\* whose quantity is the quantity the pair held before plus q (q when it
\* had no line).
AddToCartEffectStep ==
    (/\ last'.op = "add_to_cart"
     /\ last'.product_id \in DOMAIN products
     /\ StockOf(products, last'.product_id) >= last'.quantity)
    => LET s == last'.cart_session_id
           p == last'.product_id
           q == last'.quantity
       IN  /\ last'.status = 201
           /\ StockOf(products', p) = StockOf(products, p) - q
           /\ Cardinality(LinesOf(cart_items', s, p)) = 1
           /\ HeldBy(cart_items', s, p) = HeldBy(cart_items, s, p) + q
           /\ \A i \in cart_items' :
                 (i.cart_session_id # s \/ i.product_id # p) => i \in cart_items

AddToCartEffect == [][AddToCartEffectStep]_vars

\* two adds of 1 have left one line of quantity 2
AddToCartEffectWitness ==
    /\ last.op = "add_to_cart"
    /\ last.status = 201
    /\ last.quantity = 1
    /\ \E i \in cart_items :
          /\ LinesOf(cart_items, last.cart_session_id, last.product_id) = {i}
          /\ i.quantity = 2

\* C8: the effect of update_cart_item_quantity.  When the line of
\* (session, product_id) exists with quantity c and new_qty > 0: a
\* successful request sets the line's quantity to new_qty and changes the
\* stock by exactly c - new_qty; a request that increases the quantity by
\* more than the stock fails with 400 and changes neither table; every
\* other request succeeds.
UpdateQuantityEffectStep ==
    (/\ last'.op = "update_cart_item_quantity"
     /\ last'.quantity > 0
     /\ LinesOf(cart_items, last'.cart_session_id, last'.product_id) # {})
    => LET s == last'.cart_session_id
           p == last'.product_id
           c == HeldBy(cart_items, s, p)
           delta == last'.quantity - c
       IN  IF delta > 0 /\ StockOf(products, p) < delta
           THEN /\ last'.status = 400
                /\ UNCHANGED <<products, cart_items>>
           ELSE /\ last'.status = 200
                /\ Cardinality(LinesOf(cart_items', s, p)) = 1
                /\ HeldBy(cart_items', s, p) = last'.quantity
                /\ StockOf(products', p) = StockOf(products, p) - delta

UpdateQuantityEffect == [][UpdateQuantityEffectStep]_vars

\* an update has raised a line to 2 and taken the last unit of stock
UpdateQuantityEffectWitness ==
    /\ last.op = "update_cart_item_quantity"
    /\ last.status = 200
    /\ last.quantity = 2
    /\ StockOf(products, last.product_id) = 0
    /\ HeldBy(cart_items, last.cart_session_id, last.product_id) = 2

\* C10: add_to_cart with insufficient stock.  When the product exists and
\* its stock is below the requested quantity, add_to_cart fails with 400 and
\* leaves the stock and every cart line as they were.
AddToCartInsufficientStep ==
    (/\ last'.op = "add_to_cart"
     /\ last'.product_id \in DOMAIN products
     /\ StockOf(products, last'.product_id) < last'.quantity)
    => /\ last'.status = 400
       /\ UNCHANGED <<products, cart_items>>

AddToCartInsufficient == [][AddToCartInsufficientStep]_vars

\* an add_to_cart was refused while the product still had stock
AddToCartInsufficientWitness ==
    /\ last.op = "add_to_cart"
    /\ last.status = 400
    /\ StockOf(products, last.product_id) > 0
    /\ last.quantity > StockOf(products, last.product_id)

\* C9 as stated: idempotent zero.  For a line (of quantity > 0) created by
\* add_to_cart from a product with stock s0,
\* update_cart_item_quantity(session, pid, 0) leaves a state in which
\* get_cart(session) shows no line for pid and the stock equals s0, the value
\* before the line was first created.
ZeroUpdateRestoresOriginStep ==
    (/\ last'.op = "update_cart_item_quantity"
     /\ last'.quantity = 0
     /\ last'.status = 200
     /\ HeldBy(cart_items, last'.cart_session_id, last'.product_id) > 0)
    => /\ \A i \in SessionLines(cart_items', last'.cart_session_id) :
             i.product_id # last'.product_id
       /\ StockOf(products', last'.product_id)
            = origin[last'.cart_item_id].stock

ZeroUpdateEffectStep ==
    (/\ last'.op = "update_cart_item_quantity"
     /\ last'.quantity = 0
     /\ LinesOf(cart_items, last'.cart_session_id, last'.product_id) # {})
    => LET s == last'.cart_session_id
           p == last'.product_id
       IN  /\ last'.status = 200
           /\ \A i \in SessionLines(cart_items', s) : i.product_id # p
           /\ StockOf(products', p)
                = StockOf(products, p) + HeldBy(cart_items, s, p)
           /\ origin[last'.cart_item_id].clean
                => StockOf(products', p) = origin[last'.cart_item_id].stock

AtomicVisibilityStep ==
    \/ UNCHANGED <<products, cart_items>>
    \/ \E r \in Requests :
          LET s == reqs[r].cart_session_id
              p == reqs[r].product_id
              q == reqs[r].quantity
              loaded == reqs[r].cart_item
          IN  /\ reqs[r].pc = "commit"
              /\ reqs'[r].pc = "done"
              /\ reqs'[r].status = 201
              /\ StockOf(products', p) = reqs[r].product.stock_quantity - q
              /\ \E i \in cart_items' \ cart_items :
                    /\ i.cart_session_id = s
                    /\ i.product_id = p
                    /\ i.quantity = (IF loaded.id = 0 THEN 0 ELSE loaded.quantity) + q
                    /\ IF loaded.id = 0
                       THEN \A j \in cart_items : j.id # i.id
                       ELSE i.id = loaded.id
                    /\ \A j \in cart_items' : j.id # i.id => j \in cart_items

AtomicVisibility == [][AtomicVisibilityStep]_vars

\* a get_cart has seen the line of a committed add_to_cart, with the stock
\* decrement applied, while another add_to_cart was between its queries and
\* its commit
AtomicVisibilityWitness ==
    /\ last.op = "get_cart"
    /\ \E r1, r2 \in Requests :
          /\ reqs[r1].pc = "done"
          /\ reqs[r1].status = 201
          /\ reqs[r2].pc = "commit"
          /\ \E i \in last.body :
                /\ i.product_id = reqs[r1].product_id
                /\ i.quantity = reqs[r1].quantity
                /\ StockOf(products, i.product_id)
                     = provisioned[i.product_id] - i.quantity


\* C12: argument validation of add_to_cart.  A request (for an existing
\* product) whose quantity is zero or negative is rejected as an invalid
\* argument (400, or the framework's 422) and leaves the stock and every
\* cart line unchanged.
AddToCartRejectsNonPositiveStep ==
    (/\ last'.op = "add_to_cart"
     /\ last'.product_id \in DOMAIN products
     /\ last'.quantity <= 0)
    => /\ last'.status \in {400, 422}
       /\ UNCHANGED <<products, cart_items>>

AddToCartRejectsNonPositive == [][AddToCartRejectsNonPositiveStep]_vars


\* C13: not found leaves the store unchanged.  add_to_cart for a product_id
\* that does not exist, and update_cart_item_quantity or
\* remove_from_cart_by_session for a (session, product_id) pair without a
\* cart line, fail with 404 and change no stock and no cart line.
NotFoundUnchangedStep ==
    (\/ /\ last'.op = "add_to_cart"
        /\ last'.product_id \notin DOMAIN products
     \/ /\ last'.op \in {"update_cart_item_quantity",
                         "remove_from_cart_by_session"}
        /\ LinesOf(cart_items, last'.cart_session_id, last'.product_id) = {})
    => /\ last'.status = 404
       /\ UNCHANGED <<products, cart_items>>

StockChangedOnlyByReservationStep ==
    (products' # products)
    => last'.op \in {"add_to_cart", "update_cart_item_quantity",
                     "remove_from_cart_by_session"}

StockChangedOnlyByReservation == [][StockChangedOnlyByReservationStep]_vars

\* C14 as amended: a step that changes a product's stock_quantity is a step
\* of add_to_cart, update_cart_item_quantity, remove_from_cart_by_session or
\* update_product (whose request may carry a stock_quantity); get_product,
\* get_products, get_cart and the by-id cart endpoints leave every
\* stock_quantity unchanged.
StockChangedOnlyByCartOrUpdateProductStep ==
    (products' # products)
    => last'.op \in {"add_to_cart", "update_cart_item_quantity",
                     "remove_from_cart_by_session", "update_product"}

StockChangedOnlyByCartOrUpdateProduct ==
    [][StockChangedOnlyByCartOrUpdateProductStep]_vars

\* an update_product has changed the stock of a product no cart line was
\* ever created for
StockChangedByUpdateProductWitness ==
    /\ last.op = "update_product"
    /\ last.status = 200
    /\ next_id = 1
    /\ cart_items = {}
    /\ StockOf(products, last.product_id) # provisioned[last.product_id]


\* units of a product held by the lines of a cart_items table
ReservedIn(items, product_id) ==
    SumQuantity({i \in items : i.product_id = product_id})

\* C15: the by-id cart endpoints do not touch the inventory.
\* update_cart_item_quantity_by_id and remove_from_cart on an existing line
\* set the line's quantity (or delete the line: always for remove_from_cart,
\* for a quantity <= 0 for the update), leave every other line and every
\* product's stock_quantity unchanged, so that stock_quantity plus the
\* quantities of the product's lines changes by the change of the line's
\* quantity.
ByIdLeavesStockStep ==
    (/\ last'.op \in {"update_cart_item_quantity_by_id", "remove_from_cart"}
     /\ \E i \in cart_items : i.id = last'.cart_item_id)
    => LET line == CHOOSE i \in cart_items : i.id = last'.cart_item_id
           deleted == last'.op = "remove_from_cart" \/ last'.quantity <= 0
           after == IF deleted THEN 0 ELSE last'.quantity
       IN  /\ last'.status = (IF last'.op = "remove_from_cart" THEN 204 ELSE 200)
           /\ products' = products
           /\ cart_items' =
                 {i \in cart_items : i.id # line.id}
                   \cup (IF deleted THEN {}
                         ELSE {[line EXCEPT !.quantity = last'.quantity]})
           /\ StockOf(products', line.product_id)
                + ReservedIn(cart_items', line.product_id)
              = StockOf(products, line.product_id)
                + ReservedIn(cart_items, line.product_id)
                + (after - line.quantity)

ByIdLeavesStock == [][ByIdLeavesStockStep]_vars

\* an update by id has raised a line, and the product's stock plus the
\* units its lines hold is above what the product started with
ByIdLeavesStockWitness ==
    /\ last.op = "update_cart_item_quantity_by_id"
    /\ last.status = 200
    /\ last.quantity > 0
    /\ \E i \in cart_items :
          /\ i.id = last.cart_item_id
          /\ i.quantity = last.quantity
          /\ StockOf(products, i.product_id) + Reserved(i.product_id)
               > provisioned[i.product_id]


\* C16: bounded startup retry.  startup_event makes at most 5 attempts; it
\* sleeps and retries only when an attempt raised OperationalError and fewer
\* than 5 attempts have been made; it returns from the first attempt that
\* succeeds; it re-raises after the 5th OperationalError and re-raises any
\* other exception at once; it seeds the initial products only when the
\* products table is empty; and it always terminates.
StartupSettled ==
    /\ startup.attempts \in 1..retries
    /\ startup.sleeps = IF startup.pc = "sleep" THEN startup.attempts
                                                ELSE startup.attempts - 1
    /\ startup.pc = "returned" =>
          /\ startup.error = "none"
          /\ Len(startup.log) = startup.attempts - 1
    /\ startup.pc = "raised" =>
          \/ /\ startup.error = "OperationalError"
             /\ startup.attempts = retries
             /\ Len(startup.log) = retries
          \/ /\ startup.error = "Exception"
             /\ Len(startup.log) = startup.attempts - 1
    /\ startup.seeded <= 1

StartupRetryStep ==
    /\ startup'.sleeps # startup.sleeps =>
          /\ startup.pc \in StartupStatements
          /\ startup'.error = "OperationalError"
          /\ startup.attempts < retries
          /\ startup'.pc = "sleep"
    /\ startup'.attempts # startup.attempts =>
          /\ startup.pc = "sleep"
          /\ startup.error = "OperationalError"
          /\ startup'.attempts = startup.attempts + 1
    /\ (startup'.pc = "returned" /\ startup.pc # "returned") =>
          startup.pc = "close"
    /\ (startup'.error = "Exception" /\ startup.error # "Exception") =>
          /\ startup'.pc = "raised"
          /\ startup'.sleeps = startup.sleeps
    /\ (startup'.rows # startup.rows \/ startup'.seeded # startup.seeded) =>
          /\ startup.rows = 0
          /\ startup'.rows = NumInitialProducts
    /\ startup.pc \in {"returned", "raised"} => startup' = startup

BoundedStartupRetry ==
    /\ []StartupSettled
    /\ [][StartupRetryStep]_vars
    /\ <>(startup.pc \in {"returned", "raised"})

\* the fifth attempt raised OperationalError and startup_event re-raised it
\* after four sleeps
BoundedStartupRetryWitness ==
    /\ startup.pc = "raised"
    /\ startup.error = "OperationalError"
    /\ startup.attempts = retries
    /\ startup.sleeps = retries - 1
    /\ startup.seeded = 0
    /\ startup.rows = 0
    /\ startup.log[retries] = "commit"

====
